---- MODULE Spec2Model ----
(***************************************************************************)
(* Model of src/app.py (AI Home Loan Assistant): the income extractor      *)
(* parse_income_from_text, the annuity estimator estimate_loan_amount and  *)
(* the per-query response policy of the script body (lines 80-148).        *)
(*                                                                         *)
(* Texts are sequences of one-character strings.  The two regular          *)
(* expressions of the extractor are modelled by matchers that follow the   *)
(* regex engine (leftmost match, greedy quantifiers, backtracking).        *)
(* Python floats are modelled by exact decimals (extractor) and by         *)
(* fixed-point integers (estimator); float rounding is not modelled.       *)
(***************************************************************************)
EXTENDS Integers, Sequences, FiniteSets, TLC

VARIABLES
    user_input,       \* st.text_input value (line 78): the query text
    offline_mode,     \* sidebar toggle (line 26)
    client,           \* "OpenAI" or "None" (lines 16, 18)
    default_rate,     \* number_input (line 27), in hundredths of a percent
    default_years,    \* number_input (line 28)
    repayment_ratio,  \* slider (line 29)
    monthly_income,   \* first argument of estimate_loan_amount (line 55)
    pc,               \* position of the script run
    used_offline,     \* line 82
    income,           \* result of parse_income_from_text: None or <<decimal>>
    est,              \* result of estimate_loan_amount: None or <<integer>>
    err_text,         \* str(e) of a failed remote call (line 120)
    shown,            \* what the run has rendered, in order
    parse_path,       \* the return statement parse_income_from_text left by
    remote_calls,     \* calls of client.chat.completions.create in this run
    parse_calls,      \* calls of parse_income_from_text in this run
    est_calls         \* calls of estimate_loan_amount in this run

vars == <<user_input, offline_mode, client, default_rate, default_years,
          repayment_ratio, monthly_income, pc, used_offline, income, est,
          err_text, shown, parse_path, remote_calls, parse_calls, est_calls>>

(***************************************************************************)
(* Optional values: Python's None and a present value.                     *)
(***************************************************************************)
None == <<>>

Some(v) == <<v>>

(***************************************************************************)
(* Characters.                                                             *)
(***************************************************************************)
Digits == {"0", "1", "2", "3", "4", "5", "6", "7", "8", "9"}

UpperSeq == <<"A", "B", "C", "D", "E", "F", "G", "H", "I", "J", "K", "L", "M",
              "N", "O", "P", "Q", "R", "S", "T", "U", "V", "W", "X", "Y", "Z">>

LowerSeq == <<"a", "b", "c", "d", "e", "f", "g", "h", "i", "j", "k", "l", "m",
              "n", "o", "p", "q", "r", "s", "t", "u", "v", "w", "x", "y", "z">>

Letters == {UpperSeq[i] : i \in 1..Len(UpperSeq)} \cup {LowerSeq[i] : i \in 1..Len(LowerSeq)}

\* \w of the re module: letters, digits and the underscore.
WordChars == Letters \cup Digits \cup {"_"}

\* \s of the re module.
Spaces == {" ", "\t", "\n"}

\* str.lower() on one character.
Lower(c) ==
    IF \E i \in 1..Len(UpperSeq) : UpperSeq[i] = c
    THEN LowerSeq[CHOOSE i \in 1..Len(UpperSeq) : UpperSeq[i] = c]
    ELSE c

\* text.lower()
LowerText(text) == [i \in 1..Len(text) |-> Lower(text[i])]

IsNotComma(c) == c # ","

\* .replace(",", "")
StripCommas(text) == SelectSeq(text, IsNotComma)

\* line 37: t = text.lower().replace(",", "")
Normalise(text) == StripCommas(LowerText(text))

(***************************************************************************)
(* Regular-expression matching.  Positions are 1-based; position           *)
(* Len(t) + 1 is the end of the text.                                      *)
(***************************************************************************)
NoMatch == [ok |-> FALSE, at |-> 0, lo |-> 0, hi |-> 0]

\* A greedy X*: the first position from i on that holds no character of S.
SkipWhile(t, i, S) ==
    CHOOSE j \in i..(Len(t) + 1) :
        /\ \A m \in i..(j - 1) : t[m] \in S
        /\ (j = Len(t) + 1 \/ t[j] \notin S)

IsWordAt(t, i) == i \in 1..Len(t) /\ t[i] \in WordChars

\* \b between positions j - 1 and j.
WordBoundary(t, j) == IsWordAt(t, j - 1) # IsWordAt(t, j)

\* (r\s*)? tried at i: where the number has to start.  With the group taken
\* greedily the number starts after the r and all its whitespace; leaving
\* whitespace or the whole group out leaves a non-digit at the number's place,
\* so backtracking adds no match.
AfterPrefix(t, i) ==
    IF i <= Len(t) /\ t[i] = "r" THEN SkipWhile(t, i + 1, Spaces) ELSE i

MinDigits == 4

MaxDigits == 7

\* line 39: (r\s*)?(\d+(?:\.\d+)?)\s*k\b tried at start position i.  Group 2 is
\* t[lo..hi].  \d+, the fraction's \d+ and \s* are greedy, and a shorter choice
\* of any of them is followed by a character the rest of the pattern rejects.
KMatchAt(t, i) ==
    LET a == AfterPrefix(t, i)
        b == SkipWhile(t, a, Digits)
        c == IF b + 1 <= Len(t) /\ t[b] = "." /\ t[b + 1] \in Digits
             THEN SkipWhile(t, b + 1, Digits)
             ELSE b
        d == SkipWhile(t, c, Spaces)
    IN  IF b > a /\ d <= Len(t) /\ t[d] = "k" /\ WordBoundary(t, d + 1)
        THEN [ok |-> TRUE, at |-> i, lo |-> a, hi |-> c - 1]
        ELSE NoMatch

\* line 46: (r\s*)?(\d{4,7})(?:\b|\s) tried at start position i.  \d{4,7} is
\* greedy: the longest count of digits that the trailing (?:\b|\s) accepts.
PlainMatchAt(t, i) ==
    LET a == AfterPrefix(t, i)
        fits == {n \in MinDigits..MaxDigits :
                    /\ a + n - 1 <= Len(t)
                    /\ \A m \in a..(a + n - 1) : t[m] \in Digits
                    /\ \/ WordBoundary(t, a + n)
                       \/ (a + n <= Len(t) /\ t[a + n] \in Spaces)}
    IN  IF fits # {}
        THEN LET n == CHOOSE x \in fits : \A y \in fits : y <= x
             IN  [ok |-> TRUE, at |-> i, lo |-> a, hi |-> a + n - 1]
        ELSE NoMatch

\* re.search: the match at the leftmost start position that has one.
KSearch(t) ==
    LET starts == {i \in 1..Len(t) : KMatchAt(t, i).ok}
    IN  IF starts = {} THEN NoMatch
        ELSE KMatchAt(t, CHOOSE i \in starts : \A j \in starts : i <= j)

\* Mutant of line 46: the rightmost match instead of the leftmost.
PlainSearch_Rightmost(t) ==
    LET starts == {i \in 1..Len(t) : PlainMatchAt(t, i).ok}
    IN  IF starts = {} THEN NoMatch
        ELSE PlainMatchAt(t, CHOOSE i \in starts : \A j \in starts : j <= i)

PlainSearch(t) ==
    LET starts == {i \in 1..Len(t) : PlainMatchAt(t, i).ok}
    IN  IF starts = {} THEN NoMatch
        ELSE PlainMatchAt(t, CHOOSE i \in starts : \A j \in starts : i <= j)

Group2(t, m) == SubSeq(t, m.lo, m.hi)

(***************************************************************************)
(* Numbers.  float(group) is modelled by the exact decimal the digits      *)
(* denote: ip holds the integer part without leading zeros, fp the         *)
(* fraction without trailing zeros, so equal values are equal records.     *)
(***************************************************************************)
DigitSeq == <<"0", "1", "2", "3", "4", "5", "6", "7", "8", "9">>

DigitVal(c) == (CHOOSE i \in 1..Len(DigitSeq) : DigitSeq[i] = c) - 1

StripLeadingZeros(d) == SubSeq(d, SkipWhile(d, 1, {"0"}), Len(d))

StripTrailingZeros(d) ==
    LET keep == {i \in 1..Len(d) : d[i] # "0"}
    IN  IF keep = {} THEN <<>>
        ELSE SubSeq(d, 1, CHOOSE i \in keep : \A j \in keep : j <= i)

Zero == [ip |-> <<>>, fp |-> <<>>]

\* float(s) for s matching \d+(?:\.\d+)? or \d{4,7}
Float(s) ==
    LET p == SkipWhile(s, 1, Digits)
    IN  [ip |-> StripLeadingZeros(SubSeq(s, 1, p - 1)),
         fp |-> StripTrailingZeros(SubSeq(s, p + 1, Len(s)))]

\* x * 1000 (line 42): the decimal point moves three places.
Times1000(x) ==
    LET f == x.fp \o <<"0", "0", "0">>
    IN  [ip |-> StripLeadingZeros(x.ip \o SubSeq(f, 1, 3)),
         fp |-> StripTrailingZeros(SubSeq(f, 4, Len(f)))]

RECURSIVE DigitsValue(_)
DigitsValue(d) ==
    IF d = <<>> THEN 0
    ELSE 10 * DigitsValue(SubSeq(d, 1, Len(d) - 1)) + DigitVal(d[Len(d)])

\* The whole-unit amount of a decimal, as the estimator's integer argument.
ToInt(x) == DigitsValue(x.ip)

\* Mutant of lines 86, 124: `if income is not None:`.
IncomeTruthy_NotNone(v) == v # None

\* `if income:` (lines 86, 124): None and 0.0 are falsy.
IncomeTruthy(v) == v # None /\ v[1] # Zero

\* Mutant of lines 88, 126: `if est is not None:`.
EstTruthy_NotNone(v) == v # None

\* `if est:` (lines 88, 126): None and 0 are falsy.
EstTruthy(v) == v # None /\ v[1] # 0

\* Mutant of lines 39-51: the plain pattern is searched before the shorthand.
ParseTrace_PlainFirst(text) ==
    IF text = <<>> THEN [ret |-> None, path |-> "empty"]
    ELSE LET t == Normalise(text)
             k_match == KSearch(t)
             m == PlainSearch(t)
         IN  IF m.ok
             THEN [ret |-> Some(Float(Group2(t, m))), path |-> "plain"]
             ELSE IF k_match.ok
             THEN [ret |-> Some(Times1000(Float(Group2(t, k_match)))), path |-> "shorthand"]
             ELSE [ret |-> None, path |-> "none"]

(***************************************************************************)
(* parse_income_from_text (lines 32-52), with the return statement taken.  *)
(* float() cannot raise on a group of the two patterns, so the except      *)
(* clauses of lines 43 and 50 are never entered.                           *)
(***************************************************************************)
ParseTrace(text) ==
    IF text = <<>> THEN [ret |-> None, path |-> "empty"]
    ELSE LET t == Normalise(text)
             k_match == KSearch(t)
             m == PlainSearch(t)
         IN  IF k_match.ok
             THEN [ret |-> Some(Times1000(Float(Group2(t, k_match)))), path |-> "shorthand"]
             ELSE IF m.ok
             THEN [ret |-> Some(Float(Group2(t, m))), path |-> "plain"]
             ELSE [ret |-> None, path |-> "none"]

parse_income_from_text(text) == ParseTrace(text).ret

(***************************************************************************)
(* Input texts of the extractor: every concatenation of at most MaxSegs    *)
(* chunks.                                                                 *)
(***************************************************************************)
MaxSegs == 3

Chunks == {<<"r">>, <<"R">>, <<" ">>, <<"k">>, <<".">>, <<",">>, <<"a">>,
           <<"0">>, <<"5">>, <<"5", "k">>, <<"2", "0", "0", "0">>,
           <<"0", "0", "0", "0">>}

RECURSIVE TextsUpTo(_)
TextsUpTo(n) ==
    IF n = 0 THEN {<<>>}
    ELSE LET shorter == TextsUpTo(n - 1)
         IN  shorter \cup {t \o c : t \in shorter, c \in Chunks}

Texts == TextsUpTo(MaxSegs)

(***************************************************************************)
(* The extractor on its own: one call on an arbitrary text.                *)
(***************************************************************************)
InitParse ==
    /\ user_input \in Texts
    /\ offline_mode = FALSE
    /\ client = "None"
    /\ default_rate = 1175
    /\ default_years = 20
    /\ repayment_ratio = 30
    /\ monthly_income = 0
    /\ pc = "start"
    /\ used_offline = FALSE
    /\ income = None
    /\ est = None
    /\ err_text = <<>>
    /\ shown = <<>>
    /\ parse_path = "not called"
    /\ remote_calls = 0
    /\ parse_calls = 0
    /\ est_calls = 0

ParseCall ==
    /\ pc = "start"
    /\ income' = parse_income_from_text(user_input)
    /\ parse_path' = ParseTrace(user_input).path
    /\ parse_calls' = parse_calls + 1
    /\ pc' = "done"
    /\ UNCHANGED <<user_input, offline_mode, client, default_rate, default_years,
                   repayment_ratio, monthly_income, used_offline, est, err_text,
                   shown, remote_calls, est_calls>>

NextParse == ParseCall

SpecParse == InitParse /\ [][NextParse]_vars

(***************************************************************************)
(* estimate_loan_amount (lines 55-74) in fixed-point arithmetic.  The      *)
(* rate is carried in hundredths of a percent, so r = rate / RateDen.      *)
(* (1 + r) ** (-n) is carried as an integer of Scale units, rounded at     *)
(* each multiplication; the result is in whole currency units.  The        *)
(* except clause of line 73 needs an OverflowError (|n| in the thousands)  *)
(* or a non-numeric argument, which integer inputs of this size never      *)
(* raise, so the function returns a number on every modelled input.        *)
(***************************************************************************)
Scale == 10000

MonthsPerYear == 12

RateDen == 100 * 100 * MonthsPerYear

Max(a, b) == IF a >= b THEN a ELSE b

\* (1 + r) ** (-m) for m months, in Scale units, starting from v.
RECURSIVE DiscountMonths(_, _, _)
DiscountMonths(v, rate, m) ==
    IF m = 0 THEN v
    ELSE IF m > 0
    THEN DiscountMonths((v * RateDen + (RateDen + rate) \div 2) \div (RateDen + rate), rate, m - 1)
    ELSE DiscountMonths((v * (RateDen + rate) + RateDen \div 2) \div RateDen, rate, m + 1)

\* v * (yearly / Scale) ** |years|
RECURSIVE Compound(_, _, _)
Compound(v, yearly, years) ==
    IF years = 0 THEN v
    ELSE Compound((v * yearly + Scale \div 2) \div Scale, yearly,
                  IF years > 0 THEN years - 1 ELSE years + 1)

\* (1 + r) ** (-n) for n = years * 12, in Scale units: one year's factor,
\* compounded over the years.
Discount(rate, years) ==
    Compound(Scale,
             DiscountMonths(Scale, rate, IF years >= 0 THEN MonthsPerYear ELSE -MonthsPerYear),
             years)

\* (a * b) / d without leaving 32 bits.
MulDiv(a, b, d) == (a \div d) * b + ((a % d) * b) \div d

estimate_loan_amount(income_arg, annual_rate, years, repayment_pct) ==
    LET payment100 == income_arg * repayment_pct      \* affordable_payment, in hundredths
        n == years * MonthsPerYear
        \* (1 - (1 + r) ** (-n)) / r, in hundredths
        factor100 == ((Scale - Discount(annual_rate, years)) * 100 * MonthsPerYear) \div annual_rate
        pv == MulDiv(payment100, factor100, Scale)
    IN  IF annual_rate <= 0
        THEN Some(MulDiv(payment100, n, 100))
        ELSE Some(Max(pv, 0))

(***************************************************************************)
(* The response policy: the script body from line 80 on.                   *)
(***************************************************************************)
Element(widget, text, e, inc, detail) ==
    [widget |-> widget, text |-> text, est |-> e, income |-> inc, detail |-> detail]

\* lines 89-98 and 128-137
EstimateElements(e, inc) ==
    << Element("success", "Estimated Affordability (Offline)", None, None, <<>>),
       Element("write", "Approximate maximum bond amount", e, inc, <<>>) >>

\* lines 101-104
GuidanceElement ==
    Element("info", "Offline mode: include your monthly income", None, None, <<>>)

\* lines 116-117
AnswerElements ==
    << Element("success", "Answer:", None, None, <<>>),
       Element("write", "response.choices[0].message.content", None, None, <<>>) >>

\* line 127
UnavailableElement ==
    Element("warning", "OpenAI unavailable. Showing offline estimate instead.", None, None, <<>>)

\* lines 139-141
NoEstimateElement ==
    Element("error", "OpenAI quota exceeded and I couldn't compute an estimate", None, None, <<>>)

\* lines 143-146
BillingElement ==
    Element("error", "OpenAI quota exceeded. Add billing or enable Offline mode", None, None, <<>>)

\* line 148
CallErrorElement(detail) ==
    Element("error", "There was an error calling OpenAI", None, None, detail)

\* `marker in err_text`: a failure text is a sequence of segments.
Contains(marker, txt) == \E i \in 1..Len(txt) : txt[i] = marker

\* Mutant of line 121: the "Error code: 429" marker is not recognised.
QuotaErr_OnlyInsufficient(txt) == Contains("insufficient_quota", txt)

\* Mutant of line 121: every failure counts as a quota failure.
QuotaErr_AnyFailure(txt) == TRUE

\* line 121
QuotaErr(txt) == Contains("insufficient_quota", txt) \/ Contains("Error code: 429", txt)

\* Mutant of line 84: the offline attempt is made for every query.
OfflineGuard_Always == TRUE

\* line 84
OfflineGuard == offline_mode \/ client = "None"

\* Mutant of line 107: the offline toggle is not consulted.
RemoteGuard_IgnoresToggle == client # "None" /\ ~used_offline

\* line 107
RemoteGuard == ~offline_mode /\ client # "None" /\ ~used_offline

\* lines 87 and 125
EstimateFor(inc) ==
    estimate_loan_amount(ToInt(inc[1]), default_rate, default_years, repayment_ratio)

(***************************************************************************)
(* Inputs of the policy.                                                   *)
(***************************************************************************)
QueryEarn ==
    <<"I", " ", "e", "a", "r", "n", " ", "R", "1", "5", ",", "0", "0", "0", " ", "p", "e", "r", " ", "m", "o", "n", "t", "h">>

QueryShorthand ==
    <<"R", "1", "2", "k">>

QueryDecimalShorthand ==
    <<"R", " ", "7", ".", "5", "k">>

QueryZeros ==
    <<"0", "0", "0", "0">>

QueryZeroK ==
    <<"0", "k">>

QueryNoIncome ==
    <<"H", "o", "w", " ", "m", "u", "c", "h", " ", "c", "a", "n", " ", "I", " ", "b", "o", "r", "r", "o", "w", "?">>

QueryPhone ==
    <<"1", "2", "3", "4", "5", "6", "7", "8", "9", "0">>

Queries == {<<>>, QueryEarn, QueryShorthand, QueryDecimalShorthand, QueryZeros,
            QueryZeroK, QueryNoIncome, QueryPhone}

\* Failure texts of the remote call.
ErrTexts == { <<"Error code: 429", " - ", "insufficient_quota">>,
              <<"Error code: 429", " - ", "rate_limit_exceeded">>,
              <<"You exceeded your current quota: ", "insufficient_quota">>,
              <<"Error code: 401", " - ", "invalid_api_key">>,
              <<"Connection error.">> }

\* Values the sidebar widgets allow (lines 27-29), the ends of each range included.
Rates == {500, 1175, 2500}

Years == {5, 30}

Ratios == {10, 40}

InitWith(R, Y, P) ==
    /\ user_input \in Queries
    /\ offline_mode \in BOOLEAN
    /\ client \in {"None", "OpenAI"}
    /\ default_rate \in R
    /\ default_years \in Y
    /\ repayment_ratio \in P
    /\ monthly_income = 0
    /\ pc = "start"
    /\ used_offline = FALSE
    /\ income = None
    /\ est = None
    /\ err_text = <<>>
    /\ shown = <<>>
    /\ parse_path = "not called"
    /\ remote_calls = 0
    /\ parse_calls = 0
    /\ est_calls = 0

Init == InitWith(Rates, Years, Ratios)

\* lines 80-82
Submit ==
    /\ pc = "start"
    /\ pc' = IF user_input = <<>> THEN "done" ELSE "offline_check"
    /\ used_offline' = FALSE
    /\ UNCHANGED <<user_input, offline_mode, client, default_rate, default_years,
                   repayment_ratio, monthly_income, income, est, err_text, shown,
                   parse_path, remote_calls, parse_calls, est_calls>>

\* lines 84-104
OfflineBranch ==
    /\ pc = "offline_check"
    /\ OfflineGuard
    /\ LET inc == parse_income_from_text(user_input)
           e == IF IncomeTruthy(inc) THEN EstimateFor(inc) ELSE est
           used == IncomeTruthy(inc) /\ EstTruthy(e)
       IN  /\ income' = inc
           /\ est' = e
           /\ est_calls' = IF IncomeTruthy(inc) THEN est_calls + 1 ELSE est_calls
           /\ used_offline' = used
           /\ shown' = IF used THEN shown \o EstimateElements(e, inc)
                       ELSE Append(shown, GuidanceElement)
    /\ parse_path' = ParseTrace(user_input).path
    /\ parse_calls' = parse_calls + 1
    /\ pc' = "remote_check"
    /\ UNCHANGED <<user_input, offline_mode, client, default_rate, default_years,
                   repayment_ratio, monthly_income, err_text, remote_calls>>

\* line 84, condition false
SkipOffline ==
    /\ pc = "offline_check"
    /\ ~OfflineGuard
    /\ pc' = "remote_check"
    /\ UNCHANGED <<user_input, offline_mode, client, default_rate, default_years,
                   repayment_ratio, monthly_income, used_offline, income, est,
                   err_text, shown, parse_path, remote_calls, parse_calls, est_calls>>

\* lines 107-117: the call returns
RemoteSucceeds ==
    /\ pc = "remote_check"
    /\ RemoteGuard
    /\ remote_calls' = remote_calls + 1
    /\ shown' = shown \o AnswerElements
    /\ pc' = "done"
    /\ UNCHANGED <<user_input, offline_mode, client, default_rate, default_years,
                   repayment_ratio, monthly_income, used_offline, income, est,
                   err_text, parse_path, parse_calls, est_calls>>

\* lines 107-120: the call raises
RemoteFails ==
    /\ pc = "remote_check"
    /\ RemoteGuard
    /\ remote_calls' = remote_calls + 1
    /\ \E e \in ErrTexts : err_text' = e
    /\ pc' = "except"
    /\ UNCHANGED <<user_input, offline_mode, client, default_rate, default_years,
                   repayment_ratio, monthly_income, used_offline, income, est,
                   shown, parse_path, parse_calls, est_calls>>

\* line 107, condition false
NoRemote ==
    /\ pc = "remote_check"
    /\ ~RemoteGuard
    /\ pc' = "done"
    /\ UNCHANGED <<user_input, offline_mode, client, default_rate, default_years,
                   repayment_ratio, monthly_income, used_offline, income, est,
                   err_text, shown, parse_path, remote_calls, parse_calls, est_calls>>

\* lines 121-146: the failure is a quota failure
QuotaFallback ==
    /\ pc = "except"
    /\ QuotaErr(err_text)
    /\ LET inc == parse_income_from_text(user_input)
           e == IF IncomeTruthy(inc) THEN EstimateFor(inc) ELSE est
       IN  /\ income' = inc
           /\ est' = e
           /\ est_calls' = IF IncomeTruthy(inc) THEN est_calls + 1 ELSE est_calls
           /\ shown' = IF IncomeTruthy(inc)
                       THEN IF EstTruthy(e)
                            THEN shown \o <<UnavailableElement>> \o EstimateElements(e, inc)
                            ELSE Append(shown, NoEstimateElement)
                       ELSE Append(shown, BillingElement)
    /\ parse_path' = ParseTrace(user_input).path
    /\ parse_calls' = parse_calls + 1
    /\ pc' = "done"
    /\ UNCHANGED <<user_input, offline_mode, client, default_rate, default_years,
                   repayment_ratio, monthly_income, used_offline, err_text,
                   remote_calls>>

\* lines 121, 147-148: any other failure
OtherFailure ==
    /\ pc = "except"
    /\ ~QuotaErr(err_text)
    /\ shown' = Append(shown, CallErrorElement(err_text))
    /\ pc' = "done"
    /\ UNCHANGED <<user_input, offline_mode, client, default_rate, default_years,
                   repayment_ratio, monthly_income, used_offline, income, est,
                   err_text, parse_path, remote_calls, parse_calls, est_calls>>

\* One step of the run of the script on the current query.
QueryStep ==
    \/ Submit
    \/ OfflineBranch
    \/ SkipOffline
    \/ RemoteSucceeds
    \/ RemoteFails
    \/ NoRemote
    \/ QuotaFallback
    \/ OtherFailure

\* The next interaction: Streamlit runs the script again from the top with the
\* widgets' new values; nothing of the last run is kept.
RerunWith(R, Y, P) ==
    /\ pc = "done"
    /\ user_input' \in Queries
    /\ offline_mode' \in BOOLEAN
    /\ default_rate' \in R
    /\ default_years' \in Y
    /\ repayment_ratio' \in P
    /\ pc' = "start"
    /\ used_offline' = FALSE
    /\ income' = None
    /\ est' = None
    /\ err_text' = <<>>
    /\ shown' = <<>>
    /\ parse_path' = "not called"
    /\ remote_calls' = 0
    /\ parse_calls' = 0
    /\ est_calls' = 0
    /\ UNCHANGED <<client, monthly_income>>

Rerun == RerunWith(Rates, Years, Ratios)

Next == QueryStep \/ Rerun

Spec == Init /\ [][Next]_vars

(***************************************************************************)
(* The estimator on its own: one call on arbitrary arguments, those        *)
(* outside the widgets' ranges included.                                   *)
(***************************************************************************)
EstIncomes == {-10000, 0, 10000, 20000}

EstRates == {-500, 0, 500, 1175, 2500}

EstYears == {-1, 0, 10, 20}

EstRatios == {0, 10, 30, 40}

InitEst ==
    /\ user_input = <<>>
    /\ offline_mode = FALSE
    /\ client = "None"
    /\ default_rate \in EstRates
    /\ default_years \in EstYears
    /\ repayment_ratio \in EstRatios
    /\ monthly_income \in EstIncomes
    /\ pc = "start"
    /\ used_offline = FALSE
    /\ income = None
    /\ est = None
    /\ err_text = <<>>
    /\ shown = <<>>
    /\ parse_path = "not called"
    /\ remote_calls = 0
    /\ parse_calls = 0
    /\ est_calls = 0

EstimateCall ==
    /\ pc = "start"
    /\ est' = estimate_loan_amount(monthly_income, default_rate, default_years, repayment_ratio)
    /\ est_calls' = est_calls + 1
    /\ pc' = "done"
    /\ UNCHANGED <<user_input, offline_mode, client, default_rate, default_years,
                   repayment_ratio, monthly_income, used_offline, income, err_text,
                   shown, parse_path, remote_calls, parse_calls>>

NextEst == EstimateCall

SpecEst == InitEst /\ [][NextEst]_vars

(***************************************************************************)
(* The policy under a configuration outside the widgets' ranges (a term of *)
(* 0 years, a repayment cap of 0%, a rate of 0%).  Within the ranges of    *)
(* lines 27-29 the estimator yields a positive estimate for every positive *)
(* income (EstimateUsableInRange below), so the branches of lines 88/100   *)
(* and 126/138 that handle an unusable estimate are taken only here.       *)
(***************************************************************************)
DegenerateRates == {0, 1175}

DegenerateYears == {0, 20}

DegenerateRatios == {0, 30}

InitDegenerate == InitWith(DegenerateRates, DegenerateYears, DegenerateRatios)

RerunDegenerate == RerunWith(DegenerateRates, DegenerateYears, DegenerateRatios)

NextDegenerate == QueryStep \/ RerunDegenerate

SpecDegenerate == InitDegenerate /\ [][NextDegenerate]_vars

(***************************************************************************)
(* Checks of the model itself.                                             *)
(***************************************************************************)
\* The incomes of Queries are whole amounts of at most MaxDigits digits, which
\* ToInt hands to the estimator without loss.
IncomeWhole ==
    income # None => (income[1].fp = <<>> /\ Len(income[1].ip) <= MaxDigits)

\* Within the widgets' ranges a positive income has a positive estimate.
EstimateUsableInRange == est_calls = 1 => (est # None /\ est[1] > 0)

(***************************************************************************)
(* Vocabulary of the claims.                                               *)
(***************************************************************************)
\* The run on a non-empty query has ended.
Finished == pc = "done" /\ user_input # <<>>

IncomeExtracted == income # None /\ income[1] # Zero

EstimateUsable == est # None /\ est[1] # 0

HasQuotaMarker(txt) ==
    \E i \in 1..Len(txt) : txt[i] \in {"insufficient_quota", "Error code: 429"}

RemoteFailed == remote_calls = 1 /\ err_text # <<>>

\* The five terminal outcomes.
OfflineEstimateShown == shown = EstimateElements(est, income)

GuidanceShown == shown = <<GuidanceElement>>

RemoteAnswerShown == shown = AnswerElements

DegradedEstimateShown == shown = <<UnavailableElement>> \o EstimateElements(est, income)

ErrorShown == Len(shown) = 1 /\ shown[1].widget = "error"

OutcomeCount ==
    (IF OfflineEstimateShown THEN 1 ELSE 0) + (IF GuidanceShown THEN 1 ELSE 0)
    + (IF RemoteAnswerShown THEN 1 ELSE 0) + (IF DegradedEstimateShown THEN 1 ELSE 0)
    + (IF ErrorShown THEN 1 ELSE 0)

\* The normalised text the two patterns are searched in.
Norm == Normalise(user_input)

ShorthandStarts == {i \in 1..Len(Norm) : KMatchAt(Norm, i).ok}

FirstShorthand == KMatchAt(Norm, CHOOSE i \in ShorthandStarts : \A j \in ShorthandStarts : i <= j)

\* The maximal runs of digits of t, as pairs <<first, last>>.
DigitRuns(t) ==
    {<<a, b>> \in (1..Len(t)) \X (1..Len(t)) :
        /\ a <= b
        /\ \A m \in a..b : t[m] \in Digits
        /\ (a = 1 \/ t[a - 1] \notin Digits)
        /\ (b = Len(t) \/ t[b + 1] \notin Digits)}

RunLen(run) == run[2] - run[1] + 1

\* The run is a number of 4 to 7 digits that no shorthand match takes as its number.
PlainNumber(t, run) ==
    /\ RunLen(run) \in MinDigits..MaxDigits
    /\ ~\E i \in 1..Len(t) :
            /\ KMatchAt(t, i).ok
            /\ KMatchAt(t, i).lo <= run[2]
            /\ KMatchAt(t, i).hi >= run[1]

LongRuns(t) == {run \in DigitRuns(t) : RunLen(run) >= MinDigits}

FirstLongRun(t) == CHOOSE run \in LongRuns(t) : \A other \in LongRuns(t) : run[1] <= other[1]

C2_QuotaFallback ==
    (Finished /\ RemoteFailed /\ HasQuotaMarker(err_text)) =>
        /\ parse_calls = 1
        /\ est_calls = IF IncomeExtracted THEN 1 ELSE 0
        /\ (IncomeExtracted /\ EstimateUsable) => DegradedEstimateShown
        /\ income = None => shown = <<BillingElement>>

\* "R12k" after an "Error code: 429" failure without "insufficient_quota".
C2_Witness ==
    /\ Finished /\ RemoteFailed /\ user_input = QueryShorthand
    /\ Contains("Error code: 429", err_text) /\ ~Contains("insufficient_quota", err_text)
    /\ income = Some(Float(<<"1", "2", "0", "0", "0">>))
    /\ DegradedEstimateShown

(***************************************************************************)
(* C3: after a remote failure without a quota marker the error with the    *)
(* failure detail is shown and neither the extractor nor the estimator has *)
(* run, also for a query that holds an income.                             *)
(***************************************************************************)
C3_OtherFailureNoFallback ==
    (Finished /\ RemoteFailed /\ ~HasQuotaMarker(err_text)) =>
        /\ shown = <<CallErrorElement(err_text)>>
        /\ parse_calls = 0 /\ est_calls = 0
        /\ income = None /\ est = None

C3_Witness ==
    /\ Finished /\ RemoteFailed /\ ~HasQuotaMarker(err_text)
    /\ user_input = QueryEarn
    /\ shown = <<CallErrorElement(err_text)>>

(***************************************************************************)
(* C4: a text without shorthand whose digits form one run of more than 7   *)
(* digits yields None.                                                     *)
(***************************************************************************)
C4_LongRunAbsent ==
    (pc = "done" /\ ShorthandStarts = {}
     /\ \E run \in DigitRuns(user_input) :
            DigitRuns(user_input) = {run} /\ RunLen(run) > MaxDigits)
    => income = None

(***************************************************************************)
(* C5 as stated: every 4-7 digit number of the text that is not the number *)
(* of a shorthand is what the extractor returns.                           *)
(***************************************************************************)
C5_AnyPlainNumberReturned ==
    pc = "done" =>
        \A run \in DigitRuns(Norm) :
            PlainNumber(Norm, run) => income = Some(Float(SubSeq(Norm, run[1], run[2])))

(***************************************************************************)
(* C5 as amended: when the shorthand pattern matches nowhere and the first *)
(* run of 4 or more digits is a 4-7 digit number not followed by a letter, *)
(* digit or underscore, the extractor returns that number, whatever        *)
(* follows it.                                                             *)
(***************************************************************************)
C5_FirstPlainNumberReturned ==
    (pc = "done" /\ ShorthandStarts = {} /\ LongRuns(Norm) # {}) =>
        LET run == FirstLongRun(Norm)
        IN  (RunLen(run) <= MaxDigits /\ ~IsWordAt(Norm, run[2] + 1))
            => income = Some(Float(SubSeq(Norm, run[1], run[2])))

\* The first number is returned although another 4-7 digit number of another
\* value follows it.
C5_Witness ==
    /\ pc = "done" /\ ShorthandStarts = {} /\ LongRuns(Norm) # {}
    /\ LET run == FirstLongRun(Norm)
       IN  /\ RunLen(run) <= MaxDigits /\ ~IsWordAt(Norm, run[2] + 1)
           /\ income = Some(Float(SubSeq(Norm, run[1], run[2])))
           /\ \E other \in LongRuns(Norm) :
                /\ other[1] > run[2]
                /\ PlainNumber(Norm, other)
                /\ Float(SubSeq(Norm, other[1], other[2])) # income[1]

(***************************************************************************)
(* C6: when the normalised text holds a shorthand match, the extractor     *)
(* returns the number of the leftmost one times 1000 and returns before    *)
(* the plain pattern is searched, also when a plain match starts earlier.  *)
(***************************************************************************)
C6_ShorthandFirst ==
    (pc = "done" /\ ShorthandStarts # {}) =>
        /\ income = Some(Times1000(Float(Group2(Norm, FirstShorthand))))
        /\ parse_path = "shorthand"

\* A plain match starts before the leftmost shorthand match.
C6_Witness ==
    /\ pc = "done" /\ ShorthandStarts # {}
    /\ \E j \in 1..Len(Norm) : PlainMatchAt(Norm, j).ok /\ j < FirstShorthand.at
    /\ parse_path = "shorthand"

(***************************************************************************)
(* C7: the estimator never returns a negative principal.                   *)
(***************************************************************************)
C7_NeverNegative == (est_calls = 1 /\ est # None) => est[1] >= 0

(***************************************************************************)
(* C8: a query is a single-attempt decision tree: every step of a run      *)
(* moves it forward through start, offline_check, remote_check, except,    *)
(* done (so a run ends within four steps), with at most one remote call,   *)
(* at most one run of the extractor and of the estimator, and exactly one  *)
(* terminal outcome once it has finished.                                  *)
(***************************************************************************)
Rank(p) ==
    CASE p = "start" -> 0
      [] p = "offline_check" -> 1
      [] p = "remote_check" -> 2
      [] p = "except" -> 3
      [] p = "done" -> 4

C8_AtMostOnce ==
    /\ remote_calls <= 1 /\ parse_calls <= 1 /\ est_calls <= 1
    /\ Finished => OutcomeCount = 1

C8_SingleAttempt ==
    [][ /\ (pc = "done" \/ Rank(pc') > Rank(pc))
        /\ C8_AtMostOnce' ]_vars

\* A quota failure followed by the fallback: one remote call, one offline attempt.
C8_Witness ==
    /\ Finished /\ remote_calls = 1 /\ parse_calls = 1 /\ est_calls = 1
    /\ DegradedEstimateShown /\ OutcomeCount = 1

C10_ZeroIncomeIsNoIncome ==
    /\ (\E i \in 1..Len(shown) : shown[i].text = "Approximate maximum bond amount")
        => (IncomeExtracted /\ est # None /\ est[1] > 0)
    /\ (Finished /\ parse_calls = 1 /\ income = Some(Zero)) =>
        /\ est_calls = 0 /\ est = None
        /\ IF remote_calls = 0 THEN GuidanceShown ELSE shown = <<BillingElement>>

\* "0k" in the quota fallback.
C10_Witness ==
    /\ Finished /\ user_input = QueryZeroK /\ parse_path = "shorthand"
    /\ income = Some(Zero) /\ remote_calls = 1 /\ shown = <<BillingElement>>

====
